---- MODULE Spec2Model ----
(***************************************************************************)
(* Session / token lifecycle and user-cache consistency of the contacts    *)
(* REST API: src/src/routes/auth.py, src/src/services/auth.py and          *)
(* src/src/repository/users.py.                                            *)
(*                                                                         *)
(* Spec      : requests are handled one at a time, one action per handler; *)
(*             two accounts, the clock advances by seconds.                *)
(* SpecClock : the same handlers and the avatar endpoint for one account;  *)
(*             the clock leaps past the token lifetimes.                   *)
(* SpecConc  : two requests interleave at the granularity of single cache  *)
(*             and store operations.                                       *)
(* SpecIssue : the token constructors called on their own, with and        *)
(*             without a lifetime override.                                *)
(* SpecMail  : the mail of signup, request_email and password_reset is a   *)
(*             background task that runs after the response and may fail.  *)
(* SpecContacts : the contact repository called for two users.             *)
(***************************************************************************)
EXTENDS Integers, Sequences, FiniteSets, TLC

VARIABLES
    store,      \* the users table: email -> row, or None when there is no row
    cache,      \* redis_db: email -> None (no key) or the pickled lookup result
    now,        \* the server clock, in whole seconds
    ticks,      \* how many times the clock has advanced
    issued,     \* every token the server has signed so far
    resp,       \* the request handled last and the response it got
    cred,       \* ghost: the plain password each account holder last set
    confirmOk,  \* ghost: emails for which confirmed_email has answered 200
    procs,      \* SpecConc: the requests in flight, one per worker slot
    started,    \* SpecConc: how many requests have entered a handler
    contacts    \* the contacts table: id -> row, or None when there is no row

vars == <<store, cache, now, ticks, issued, resp, cred, confirmOk, procs, started, contacts>>

---------------------------------------------------------------------------
\* Bounds of the model.

Emails == {"a@x.com", "b@x.com"}
Primary == "a@x.com"
Passwords == {"pw1", "pw2"}
Usernames == {"alice"}
Urls == {"url1"}
Slots == {1, 2}

\* Spec: the clock advances by a second at most MaxTicks times.
MaxTicks == 1
\* SpecClock: the clock leaps at most MaxLeaps times.
MaxLeaps == 2
\* SpecConc: at most MaxRequests requests are made.
MaxRequests == 5
\* Rows the contacts table can hold.
MaxContacts == 2
ContactIds == 1..MaxContacts

---------------------------------------------------------------------------
\* Program constants (seconds).

ACCESS_EXPIRE == 900
REFRESH_EXPIRE == 604800
EMAIL_EXPIRE == 604800

\* Python's None.  redis_db.get of a missing key is None as well.
None == [none |-> TRUE]

NoStr == "-"

---------------------------------------------------------------------------
\* Token codec (python-jose as the service uses it).

\* jwt.encode: the claims, signed with SECRET_KEY.  datetime claims are
\* written as whole seconds, so the token's value is a function of its claims.
JwtEncode(claims) == [payload |-> claims, sig |-> TRUE]

JWTError == [error |-> "JWTError"]

\* jwt.decode: JWTError on a bad signature or when the clock is past exp.
\* jwt.decode with options={"verify_exp": False}.
JwtDecode_no_expiry(token, t) ==
    IF ~token.sig THEN JWTError ELSE token.payload

JwtDecode(token, t) ==
    IF ~token.sig THEN JWTError
    ELSE IF t > token.payload.exp THEN JWTError
    ELSE token.payload

HasKey(payload, k) == k \in DOMAIN payload

\* Python truthiness of expires_delta_sec: None and 0 are falsy.
Truthy(delta) == delta # None /\ delta.sec # 0

create_access_token(data_payload, expires_delta_sec, t) ==
    LET expire == IF Truthy(expires_delta_sec) THEN t + expires_delta_sec.sec
                  ELSE t + ACCESS_EXPIRE
    IN  JwtEncode([iat |-> t, exp |-> expire, scope |-> "access_token"] @@ data_payload)

create_refresh_token(data_payload, expires_delta_sec, t) ==
    LET expire == IF Truthy(expires_delta_sec) THEN t + expires_delta_sec.sec
                  ELSE t + REFRESH_EXPIRE
    IN  JwtEncode([iat |-> t, exp |-> expire, scope |-> "refresh_token"] @@ data_payload)

\* No scope claim is written.
create_email_token(data, t) ==
    JwtEncode([iat |-> t, exp |-> t + EMAIL_EXPIRE] @@ data)

\* Outcome of decode_refresh_token: the email, or the error raised.
\* payload['scope'] of a token without that claim raises KeyError, which the
\* except JWTError clause does not catch.
decode_refresh_token(refresh_token, t) ==
    LET payload == JwtDecode(refresh_token, t)
    IN  IF payload = JWTError
        THEN [ok |-> FALSE, status |-> 401, detail |-> "Could not validate credentials", email |-> NoStr]
        ELSE IF ~HasKey(payload, "scope")
        THEN [ok |-> FALSE, status |-> 500, detail |-> "KeyError", email |-> NoStr]
        ELSE IF payload.scope = "refresh_token"
        THEN [ok |-> TRUE, status |-> 200, detail |-> NoStr, email |-> payload.sub]
        ELSE [ok |-> FALSE, status |-> 401, detail |-> "Invalid scope for token", email |-> NoStr]

\* Outcome of get_email_from_token: no scope check; 422 on a decode error.
\* get_email_from_token that refuses a payload carrying a scope claim.
get_email_from_token_scoped(token, t) ==
    LET payload == JwtDecode(token, t)
    IN  IF payload = JWTError \/ HasKey(payload, "scope")
        THEN [ok |-> FALSE, status |-> 422, detail |-> "Invalid token for email verification", email |-> NoStr]
        ELSE [ok |-> TRUE, status |-> 200, detail |-> NoStr, email |-> payload.sub]

get_email_from_token(token, t) ==
    LET payload == JwtDecode(token, t)
    IN  IF payload = JWTError
        THEN [ok |-> FALSE, status |-> 422, detail |-> "Invalid token for email verification", email |-> NoStr]
        ELSE [ok |-> TRUE, status |-> 200, detail |-> NoStr, email |-> payload.sub]

\* The token part of get_current_user (lines 120-129): the email to look up,
\* or the error raised.
DecodeAccessToken(token, t) ==
    LET payload == JwtDecode(token, t)
    IN  IF payload = JWTError
        THEN [ok |-> FALSE, status |-> 401, detail |-> "Could not validate credentials", email |-> NoStr]
        ELSE IF ~HasKey(payload, "scope")
        THEN [ok |-> FALSE, status |-> 500, detail |-> "KeyError", email |-> NoStr]
        ELSE IF payload.scope = "access_token"
        THEN [ok |-> TRUE, status |-> 200, detail |-> NoStr, email |-> payload.sub]
        ELSE [ok |-> FALSE, status |-> 401, detail |-> "Could not validate credentials", email |-> NoStr]

---------------------------------------------------------------------------
\* Credential hasher (passlib bcrypt): the digest is not the plain password
\* and verifies exactly the password it was made from.

get_password_hash(password) == [bcrypt |-> password]

verify_password(plain_password, hashed_password) ==
    hashed_password = get_password_hash(plain_password)

---------------------------------------------------------------------------
\* Repository: src/src/repository/users.py.  Each operator takes the store
\* and the cache and gives the pair the whole function leaves behind.

\* pickle.dumps / pickle.loads: the dump of None is a non-empty byte string.
Dumps(obj) == [pickled |-> obj]
Loads(dump) == dump.pickled

get_user_by_email_from_db(s, email) == s[email]

\* redis_db.get(..) then `if user_dump: redis_db.delete(..)`.
DeleteIfCached(c, email) ==
    IF c[email] # None THEN [c EXCEPT ![email] = None] ELSE c

\* get_user_by_email without the redis_db.set of a miss.
get_user_by_email_no_set(s, c, email) ==
    LET user_dump == c[email]
    IN  IF user_dump = None
        THEN [user |-> s[email], cache |-> c]
        ELSE [user |-> Loads(user_dump), cache |-> c]

get_user_by_email(s, c, email) ==
    LET user_dump == c[email]
    IN  IF user_dump = None
        THEN [user |-> s[email], cache |-> [c EXCEPT ![email] = Dumps(s[email])]]
        ELSE [user |-> Loads(user_dump), cache |-> c]

\* User(**body.dict()): confirmed defaults to False, refresh_token to NULL.
NewUserRow(body) ==
    [username |-> body.username, email |-> body.email, password |-> body.password,
     confirmed |-> FALSE, avatar |-> "", refresh_token |-> None]

\* db.commit() of a second row with the same email violates the unique
\* constraint of users.email: IntegrityError, nothing after it runs.
\* create_user without the redis_db.delete after the commit.
create_user_keeps_entry(s, c, body) ==
    IF s[body.email] # None
    THEN [ok |-> FALSE, user |-> None, store |-> s, cache |-> c]
    ELSE [ok |-> TRUE, user |-> NewUserRow(body),
          store |-> [s EXCEPT ![body.email] = NewUserRow(body)],
          cache |-> c]

\* create_user without `new_user.avatar = ""`: the column keeps its NULL.
create_user_avatar_null(s, c, body) ==
    IF s[body.email] # None
    THEN [ok |-> FALSE, user |-> None, store |-> s, cache |-> c]
    ELSE [ok |-> TRUE, user |-> [NewUserRow(body) EXCEPT !.avatar = NoStr],
          store |-> [s EXCEPT ![body.email] = [NewUserRow(body) EXCEPT !.avatar = NoStr]],
          cache |-> DeleteIfCached(c, body.email)]

create_user(s, c, body) ==
    IF s[body.email] # None
    THEN [ok |-> FALSE, user |-> None, store |-> s, cache |-> c]
    ELSE [ok |-> TRUE, user |-> NewUserRow(body),
          store |-> [s EXCEPT ![body.email] = NewUserRow(body)],
          cache |-> DeleteIfCached(c, body.email)]

\* update_token guarded by `if token:`: a NULL is never written.
update_token_skip_null(s, c, cache_user, token) ==
    [store |-> IF token = None THEN s
               ELSE [s EXCEPT ![cache_user.email].refresh_token = token],
     cache |-> DeleteIfCached(c, cache_user.email)]

update_token(s, c, cache_user, token) ==
    [store |-> [s EXCEPT ![cache_user.email].refresh_token = token],
     cache |-> DeleteIfCached(c, cache_user.email)]

\* confirmed_email without the redis_db.delete.
confirmed_email_stale(s, c, email) ==
    [store |-> [s EXCEPT ![email].confirmed = TRUE], cache |-> c]

confirmed_email(s, c, email) ==
    [store |-> [s EXCEPT ![email].confirmed = TRUE],
     cache |-> DeleteIfCached(c, email)]

\* update_password without the redis_db.delete.
update_password_stale(s, c, cache_user, password) ==
    [store |-> [s EXCEPT ![cache_user.email].password = password], cache |-> c]

\* update_password that also asks for a new confirmation of the email.
update_password_unconfirms(s, c, cache_user, password) ==
    [store |-> [s EXCEPT ![cache_user.email].password = password,
                         ![cache_user.email].confirmed = FALSE],
     cache |-> DeleteIfCached(c, cache_user.email)]

\* update_password that also sets refresh_token to NULL.
update_password_logout(s, c, cache_user, password) ==
    [store |-> [s EXCEPT ![cache_user.email].password = password,
                         ![cache_user.email].refresh_token = None],
     cache |-> DeleteIfCached(c, cache_user.email)]

update_password(s, c, cache_user, password) ==
    [store |-> [s EXCEPT ![cache_user.email].password = password],
     cache |-> DeleteIfCached(c, cache_user.email)]

\* update_avatar whose UPDATE has no WHERE clause.
update_avatar_all_rows(s, c, email, url) ==
    [store |-> [e \in DOMAIN s |-> IF s[e] = None THEN None ELSE [s[e] EXCEPT !.avatar = url]],
     cache |-> DeleteIfCached(c, email)]

\* update_avatar without the redis_db.delete.
update_avatar_stale(s, c, email, url) ==
    [store |-> [s EXCEPT ![email].avatar = url], cache |-> c]

update_avatar(s, c, email, url) ==
    [store |-> [s EXCEPT ![email].avatar = url],
     cache |-> DeleteIfCached(c, email)]

---------------------------------------------------------------------------
\* Routes: src/src/routes/auth.py.  Each operator is one handler: from the
\* store, the cache, the request and the clock to the response and the store
\* and cache it leaves behind.

\* status / detail: the response; email: the account the request resolved to;
\* access / refresh: the token pair returned; mail: the background mail task.
Out(status, detail, email, s, c, access, refresh, mail) ==
    [status |-> status, detail |-> detail, email |-> email, store |-> s, cache |-> c,
     access |-> access, refresh |-> refresh, mail |-> mail]

\* POST /auth/signup
\* signup without the lookup of an existing account.
signup_no_conflict_check(s, c, username, email, password, t) ==
    LET body == [username |-> username, email |-> email,
                 password |-> get_password_hash(password)]
        made == create_user(s, c, body)
    IN  IF ~made.ok
        THEN Out(500, "IntegrityError", email, s, c, None, None, NoStr)
        ELSE Out(201, "User successfully created. Check your email for confirmation.",
                 made.user.email, made.store, made.cache, None, None, "confirm")

signup(s, c, username, email, password, t) ==
    LET look == get_user_by_email(s, c, email)
        body == [username |-> username, email |-> email,
                 password |-> get_password_hash(password)]
        made == create_user(s, look.cache, body)
    IN  IF look.user # None
        THEN Out(409, "Account already exists", email, s, look.cache, None, None, NoStr)
        ELSE IF ~made.ok
        THEN Out(500, "IntegrityError", email, s, look.cache, None, None, NoStr)
        ELSE Out(201, "User successfully created. Check your email for confirmation.",
                 made.user.email, made.store, made.cache, None, None, "confirm")

\* POST /auth/login
\* login that verifies the password before it looks at user.confirmed.
login_password_first(s, c, email, password, t) ==
    LET look == get_user_by_email(s, c, email)
        user == look.user
        access_token == create_access_token([sub |-> user.email], None, t)
        new_refresh == create_refresh_token([sub |-> user.email], None, t)
        upd == update_token(s, look.cache, user, new_refresh)
    IN  IF user = None
        THEN Out(401, "Invalid email", email, s, look.cache, None, None, NoStr)
        ELSE IF ~verify_password(password, user.password)
        THEN Out(401, "Invalid password", email, s, look.cache, None, None, NoStr)
        ELSE IF ~user.confirmed
        THEN Out(401, "Email not confirmed", email, s, look.cache, None, None, NoStr)
        ELSE Out(201, NoStr, email, upd.store, upd.cache, access_token, new_refresh, NoStr)

\* login without the check of user.confirmed.
login_unconfirmed_ok(s, c, email, password, t) ==
    LET look == get_user_by_email(s, c, email)
        user == look.user
        access_token == create_access_token([sub |-> user.email], None, t)
        refresh_token == create_refresh_token([sub |-> user.email], None, t)
        upd == update_token(s, look.cache, user, refresh_token)
    IN  IF user = None
        THEN Out(401, "Invalid email", email, s, look.cache, None, None, NoStr)
        ELSE IF ~verify_password(password, user.password)
        THEN Out(401, "Invalid password", email, s, look.cache, None, None, NoStr)
        ELSE Out(201, NoStr, email, upd.store, upd.cache, access_token, refresh_token, NoStr)

\* login that sets refresh_token to NULL when the password is wrong.
login_clears_on_failure(s, c, email, password, t) ==
    LET look == get_user_by_email(s, c, email)
        user == look.user
        access_token == create_access_token([sub |-> user.email], None, t)
        refresh_token == create_refresh_token([sub |-> user.email], None, t)
        upd == update_token(s, look.cache, user, refresh_token)
        cleared == update_token(s, look.cache, user, None)
    IN  IF user = None
        THEN Out(401, "Invalid email", email, s, look.cache, None, None, NoStr)
        ELSE IF ~user.confirmed
        THEN Out(401, "Email not confirmed", email, s, look.cache, None, None, NoStr)
        ELSE IF ~verify_password(password, user.password)
        THEN Out(401, "Invalid password", email, cleared.store, cleared.cache,
                 None, None, NoStr)
        ELSE Out(201, NoStr, email, upd.store, upd.cache, access_token, refresh_token, NoStr)

login(s, c, email, password, t) ==
    LET look == get_user_by_email(s, c, email)
        user == look.user
        access_token == create_access_token([sub |-> user.email], None, t)
        refresh_token == create_refresh_token([sub |-> user.email], None, t)
        upd == update_token(s, look.cache, user, refresh_token)
    IN  IF user = None
        THEN Out(401, "Invalid email", email, s, look.cache, None, None, NoStr)
        ELSE IF ~user.confirmed
        THEN Out(401, "Email not confirmed", email, s, look.cache, None, None, NoStr)
        ELSE IF ~verify_password(password, user.password)
        THEN Out(401, "Invalid password", email, s, look.cache, None, None, NoStr)
        ELSE Out(201, NoStr, email, upd.store, upd.cache, access_token, refresh_token, NoStr)

\* GET /auth/refresh_token
refresh_token(s, c, token, t) ==
    LET dec == decode_refresh_token(token, t)
        email == dec.email
        look == get_user_by_email(s, c, email)
        user == look.user
        access_token == create_access_token([sub |-> email], None, t)
        new_refresh_token == create_refresh_token([sub |-> email], None, t)
        cleared == update_token(s, look.cache, user, None)
        upd == update_token(s, look.cache, user, new_refresh_token)
    IN  IF ~dec.ok
        THEN Out(dec.status, dec.detail, NoStr, s, c, None, None, NoStr)
        ELSE IF user = None
        THEN \* user.refresh_token of None: AttributeError
             Out(500, "AttributeError", email, s, look.cache, None, None, NoStr)
        ELSE IF user.refresh_token # token
        THEN Out(401, "Invalid refresh token", email, cleared.store, cleared.cache,
                 None, None, NoStr)
        ELSE Out(200, NoStr, email, upd.store, upd.cache, access_token, new_refresh_token,
                 NoStr)

\* GET /auth/confirmed_email/{token}
\* confirmed_email without the early return for a confirmed user.
confirmed_email_route_no_early_return(s, c, token, t) ==
    LET dec == get_email_from_token(token, t)
        email == dec.email
        look == get_user_by_email(s, c, email)
        upd == confirmed_email(s, look.cache, email)
    IN  IF ~dec.ok
        THEN Out(dec.status, dec.detail, NoStr, s, c, None, None, NoStr)
        ELSE IF look.user = None
        THEN Out(400, "Verification error", email, s, look.cache, None, None, NoStr)
        ELSE Out(200, "Email confirmed", email, upd.store, upd.cache, None, None, NoStr)

confirmed_email_route(s, c, token, t) ==
    LET dec == get_email_from_token(token, t)
        email == dec.email
        look == get_user_by_email(s, c, email)
        user == look.user
        upd == confirmed_email(s, look.cache, email)
    IN  IF ~dec.ok
        THEN Out(dec.status, dec.detail, NoStr, s, c, None, None, NoStr)
        ELSE IF user = None
        THEN Out(400, "Verification error", email, s, look.cache, None, None, NoStr)
        ELSE IF user.confirmed
        THEN Out(200, "Your email is already confirmed", email, s, look.cache,
                 None, None, NoStr)
        ELSE Out(200, "Email confirmed", email, upd.store, upd.cache, None, None, NoStr)

\* POST /auth/request_email
request_email(s, c, email, t) ==
    LET look == get_user_by_email(s, c, email)
        user == look.user
    IN  IF user # None /\ user.confirmed
        THEN Out(201, "Your email is already confirmed", email, s, look.cache,
                 None, None, NoStr)
        ELSE IF user # None
        THEN Out(201, "Check your email for confirmation.", user.email, s, look.cache,
                 None, None, "confirm")
        ELSE Out(201, "Check your email for confirmation.", email, s, look.cache,
                 None, None, NoStr)

\* POST /auth/password_reset
\* password_reset that answers 404 for an email without an account.
password_reset_404(s, c, email, t) ==
    LET look == get_user_by_email(s, c, email)
        user == look.user
    IN  IF user # None
        THEN Out(201, "Check your email for instruction.", user.email, s, look.cache,
                 None, None, "reset")
        ELSE Out(404, "Not found", email, s, look.cache, None, None, NoStr)

password_reset(s, c, email, t) ==
    LET look == get_user_by_email(s, c, email)
        user == look.user
    IN  IF user # None
        THEN Out(201, "Check your email for instruction.", user.email, s, look.cache,
                 None, None, "reset")
        ELSE Out(201, "Check your email for instruction.", email, s, look.cache,
                 None, None, NoStr)

\* GET /auth/confirm_password_reset/{token}
confirm_password_reset(s, c, token, t) ==
    LET dec == get_email_from_token(token, t)
        email == dec.email
        look == get_user_by_email(s, c, email)
    IN  IF ~dec.ok
        THEN Out(dec.status, dec.detail, NoStr, s, c, None, None, NoStr)
        ELSE IF look.user = None
        THEN Out(400, "Confirm password reset error", email, s, look.cache,
                 None, None, NoStr)
        ELSE Out(200, "User confirmed password reset", email, s, look.cache,
                 None, None, NoStr)

\* POST /auth/new_password
\* new_password that refuses an account whose email is not confirmed.
new_password_confirmed_only(s, c, email, password, t) ==
    LET look == get_user_by_email(s, c, email)
        user == look.user
        password_hash == get_password_hash(password)
        upd == update_password(s, look.cache, user, password_hash)
    IN  IF user = None
        THEN Out(400, "Invalid email", email, s, look.cache, None, None, NoStr)
        ELSE IF ~user.confirmed
        THEN Out(400, "Email not confirmed", email, s, look.cache, None, None, NoStr)
        ELSE Out(201, "Password updated", email, upd.store, upd.cache, None, None, NoStr)

new_password(s, c, email, password, t) ==
    LET look == get_user_by_email(s, c, email)
        user == look.user
        password_hash == get_password_hash(password)
        upd == update_password(s, look.cache, user, password_hash)
    IN  IF user = None
        THEN Out(400, "Invalid email", email, s, look.cache, None, None, NoStr)
        ELSE Out(201, "Password updated", email, upd.store, upd.cache, None, None, NoStr)

\* Auth.get_current_user, the guard of every contact and user endpoint: the
\* user it hands to the endpoint, or the error raised.
\* get_current_user that refuses a user whose stored refresh token is NULL.
get_current_user_revoking(s, c, token, t) ==
    LET dec == DecodeAccessToken(token, t)
        look == get_user_by_email(s, c, dec.email)
    IN  IF ~dec.ok
        THEN [ok |-> FALSE, status |-> dec.status, detail |-> dec.detail,
              email |-> NoStr, user |-> None, cache |-> c]
        ELSE IF look.user = None \/ look.user.refresh_token = None
        THEN [ok |-> FALSE, status |-> 401, detail |-> "Could not validate credentials",
              email |-> dec.email, user |-> None, cache |-> look.cache]
        ELSE [ok |-> TRUE, status |-> 200, detail |-> NoStr,
              email |-> dec.email, user |-> look.user, cache |-> look.cache]

get_current_user(s, c, token, t) ==
    LET dec == DecodeAccessToken(token, t)
        look == get_user_by_email(s, c, dec.email)
    IN  IF ~dec.ok
        THEN [ok |-> FALSE, status |-> dec.status, detail |-> dec.detail,
              email |-> NoStr, user |-> None, cache |-> c]
        ELSE IF look.user = None
        THEN [ok |-> FALSE, status |-> 401, detail |-> "Could not validate credentials",
              email |-> dec.email, user |-> None, cache |-> look.cache]
        ELSE [ok |-> TRUE, status |-> 200, detail |-> NoStr,
              email |-> dec.email, user |-> look.user, cache |-> look.cache]

\* A guarded endpoint that reads only: the outcome of the guard.
authenticate(s, c, token, t) ==
    LET cur == get_current_user(s, c, token, t)
    IN  Out(cur.status, cur.detail, cur.email, s, cur.cache, None, None, NoStr)

\* The avatar endpoint (src/src/routes/users.py): guarded by get_current_user,
\* then update_avatar(current_user.email, url).
avatar_route(s, c, token, url, t) ==
    LET cur == get_current_user(s, c, token, t)
        upd == update_avatar(s, cur.cache, cur.user.email, url)
    IN  IF ~cur.ok
        THEN Out(cur.status, cur.detail, cur.email, s, cur.cache, None, None, NoStr)
        ELSE Out(200, NoStr, cur.email, upd.store, upd.cache, None, None, NoStr)

\* Email dispatch (src/src/services/email.py): the mail a background task
\* sends carries an email token for the addressee, made when the task runs.
SendEmailToken(email, t) == create_email_token([sub |-> email], t)

---------------------------------------------------------------------------
\* The state machine.

\* What a client can present as a token: any token the server has signed,
\* or one it made up itself, whose signature does not verify.
Forged ==
    {[payload |-> [sub |-> Primary, iat |-> now, exp |-> now + ACCESS_EXPIRE, scope |-> sc],
      sig |-> FALSE] : sc \in {"access_token", "refresh_token"}}

Presentable == issued \cup Forged

\* The request handled last and its response.
Response(op, status, detail, email, password, token, access, refresh, mail) ==
    [op |-> op, status |-> status, detail |-> detail, email |-> email,
     password |-> password, token |-> token, access |-> access,
     refresh |-> refresh, mail |-> mail]

\* No request is being answered.
NoResp == Response("none", 0, NoStr, NoStr, NoStr, None, None, None, NoStr)

Idle == [pc |-> "idle"]

Init ==
    /\ store = [e \in Emails |-> None]
    /\ cache = [e \in Emails |-> None]
    /\ now = 0
    /\ ticks = 0
    /\ issued = {}
    /\ resp = NoResp
    /\ cred = [e \in Emails |-> NoStr]
    /\ confirmOk = {}
    /\ procs = [i \in Slots |-> Idle]
    /\ started = 0
    /\ contacts = [id \in ContactIds |-> None]

\* The server handles one request: the handler's outcome becomes the state,
\* the tokens it returned and the token of the mail it scheduled are signed.
Handle(op, out, email, password, token) ==
    /\ resp = NoResp
    /\ store' = out.store
    /\ cache' = out.cache
    /\ issued' = issued \cup ({out.access, out.refresh} \ {None})
                        \cup (IF out.mail # NoStr THEN {SendEmailToken(out.email, now)} ELSE {})
    /\ resp' = Response(op, out.status, out.detail, IF email # NoStr THEN email ELSE out.email,
                        password, token, out.access, out.refresh, out.mail)
    /\ cred' = IF op \in {"signup", "new_password"} /\ out.status = 201
               THEN [cred EXCEPT ![email] = password] ELSE cred
    /\ confirmOk' = IF op = "confirmed_email" /\ out.status = 200
                    THEN confirmOk \cup {out.email} ELSE confirmOk
    /\ UNCHANGED <<now, ticks, procs, started, contacts>>

Signup(username, email, password) ==
    Handle("signup", signup(store, cache, username, email, password, now), email, password, None)

Login(email, password) ==
    Handle("login", login(store, cache, email, password, now), email, password, None)

RefreshToken(token) ==
    Handle("refresh_token", refresh_token(store, cache, token, now), NoStr, NoStr, token)

ConfirmedEmail(token) ==
    Handle("confirmed_email", confirmed_email_route(store, cache, token, now), NoStr, NoStr, token)

RequestEmail(email) ==
    Handle("request_email", request_email(store, cache, email, now), email, NoStr, None)

PasswordReset(email) ==
    Handle("password_reset", password_reset(store, cache, email, now), email, NoStr, None)

ConfirmPasswordReset(token) ==
    Handle("confirm_password_reset", confirm_password_reset(store, cache, token, now),
           NoStr, NoStr, token)

NewPassword(email, password) ==
    Handle("new_password", new_password(store, cache, email, password, now), email, password, None)

Authenticate(token) ==
    Handle("authenticate", authenticate(store, cache, token, now), NoStr, NoStr, token)

AvatarUpdate(token, url) ==
    Handle("avatar", avatar_route(store, cache, token, url, now), NoStr, NoStr, token)

\* The response is delivered; the server is ready for the next request.
Return ==
    /\ resp # NoResp
    /\ resp' = NoResp
    /\ UNCHANGED <<store, cache, now, ticks, issued, cred, confirmOk, procs, started, contacts>>

\* Time passes between two requests.
Tick(d, max) ==
    /\ resp = NoResp
    /\ ticks < max
    /\ now' = now + d
    /\ ticks' = ticks + 1
    /\ UNCHANGED <<store, cache, issued, resp, cred, confirmOk, procs, started, contacts>>

\* A second, an access-token lifetime, a refresh-token lifetime.
Leaps == {1, ACCESS_EXPIRE, REFRESH_EXPIRE}

Next ==
    \/ \E u \in Usernames, e \in Emails, p \in Passwords : Signup(u, e, p)
    \/ \E e \in Emails, p \in Passwords : Login(e, p)
    \/ \E tok \in Presentable : RefreshToken(tok)
    \/ \E tok \in Presentable : ConfirmedEmail(tok)
    \/ \E e \in Emails : RequestEmail(e)
    \/ \E e \in Emails : PasswordReset(e)
    \/ \E tok \in Presentable : ConfirmPasswordReset(tok)
    \/ \E e \in Emails, p \in Passwords : NewPassword(e, p)
    \/ \E tok \in Presentable : Authenticate(tok)
    \/ Tick(1, MaxTicks)
    \/ Return

Spec == Init /\ [][Next]_vars

NextClock ==
    \/ \E u \in Usernames, p \in Passwords : Signup(u, Primary, p)
    \/ \E p \in Passwords : Login(Primary, p)
    \/ \E tok \in Presentable : RefreshToken(tok)
    \/ \E tok \in Presentable : ConfirmedEmail(tok)
    \/ RequestEmail(Primary)
    \/ PasswordReset(Primary)
    \/ \E tok \in Presentable : ConfirmPasswordReset(tok)
    \/ \E p \in Passwords : NewPassword(Primary, p)
    \/ \E tok \in Presentable : Authenticate(tok)
    \/ \E tok \in Presentable, url \in Urls : AvatarUpdate(tok, url)
    \/ \E d \in Leaps : Tick(d, MaxLeaps)
    \/ Return

SpecClock == Init /\ [][NextClock]_vars

---------------------------------------------------------------------------
\* SpecConc: requests of the Primary account run in the worker slots; every
\* step is one cache or store operation of the handler's code.

\* A request in flight: where it stands (pc), what it was asked, and its
\* local variables: user (the lookup's result), dump (the last redis_db.get),
\* value (what it is about to write) and the response it has decided on.
Proc(pc, op, email, password, token, user, dump, value, status, detail, access, refresh) ==
    [pc |-> pc, op |-> op, email |-> email, password |-> password, token |-> token,
     user |-> user, dump |-> dump, value |-> value, status |-> status, detail |-> detail,
     access |-> access, refresh |-> refresh]

\* The request enters the handler and calls get_user_by_email(email).
Begin(i, op, email, password, token) ==
    /\ procs[i] = Idle
    /\ started < MaxRequests
    /\ started' = started + 1
    /\ procs' = [procs EXCEPT ![i] = Proc("cache_get", op, email, password, token,
                                          None, None, None, 0, NoStr, None, None)]
    /\ UNCHANGED <<store, cache, now, ticks, issued, resp, cred, confirmOk, contacts>>

\* The token does not decode: the handler raises before any lookup.
Reject(i, op, token, dec) ==
    /\ procs[i] = Idle
    /\ started < MaxRequests
    /\ started' = started + 1
    /\ procs' = [procs EXCEPT ![i] = Proc("done", op, NoStr, NoStr, token,
                                          None, None, None, dec.status, dec.detail, None, None)]
    /\ UNCHANGED <<store, cache, now, ticks, issued, resp, cred, confirmOk, contacts>>

StartSignup(i, password) == Begin(i, "signup", Primary, password, None)

StartLogin(i, password) == Begin(i, "login", Primary, password, None)

StartNewPassword(i, password) == Begin(i, "new_password", Primary, password, None)

StartRefresh(i, token) ==
    LET dec == decode_refresh_token(token, now)
    IN  IF dec.ok THEN Begin(i, "refresh_token", dec.email, NoStr, token)
        ELSE Reject(i, "refresh_token", token, dec)

StartConfirm(i, token) ==
    LET dec == get_email_from_token(token, now)
    IN  IF dec.ok THEN Begin(i, "confirmed_email", dec.email, NoStr, token)
        ELSE Reject(i, "confirmed_email", token, dec)

\* get_user_by_email, line 38: user_dump = redis_db.get(email); a hit returns
\* loads(user_dump) (line 43).
CacheGet(i) ==
    LET p == procs[i]
        user_dump == cache[p.email]
    IN  /\ p.pc = "cache_get"
        /\ procs' = [procs EXCEPT ![i] =
                IF user_dump = None THEN [p EXCEPT !.pc = "db_query"]
                ELSE [p EXCEPT !.pc = "decide", !.user = Loads(user_dump)]]
        /\ UNCHANGED <<store, cache, now, ticks, issued, resp, cred, confirmOk, started, contacts>>

\* line 40: user = db.query(User).filter(User.email == email).first()
DbQuery(i) ==
    LET p == procs[i]
    IN  /\ p.pc = "db_query"
        /\ procs' = [procs EXCEPT ![i] = [p EXCEPT !.pc = "cache_set", !.user = store[p.email]]]
        /\ UNCHANGED <<store, cache, now, ticks, issued, resp, cred, confirmOk, started, contacts>>

\* line 41: redis_db.set(email, dumps(user))
CacheSet(i) ==
    LET p == procs[i]
    IN  /\ p.pc = "cache_set"
        /\ cache' = [cache EXCEPT ![p.email] = Dumps(p.user)]
        /\ procs' = [procs EXCEPT ![i] = [p EXCEPT !.pc = "decide"]]
        /\ UNCHANGED <<store, now, ticks, issued, resp, cred, confirmOk, started, contacts>>

\* The handler's checks on the user it looked up (routes/auth.py): it either
\* raises / returns, or goes on to the repository function that writes.
Answer(p, status, detail) == [p EXCEPT !.pc = "done", !.status = status, !.detail = detail]

Write(p, value, status, detail, access, refresh) ==
    [p EXCEPT !.pc = "commit", !.value = value, !.status = status, !.detail = detail,
              !.access = access, !.refresh = refresh]

Decide(i) ==
    LET p == procs[i]
        user == p.user
        access_token == create_access_token([sub |-> p.email], None, now)
        new_refresh_token == create_refresh_token([sub |-> p.email], None, now)
        q == CASE p.op = "signup" ->
                    IF user # None THEN Answer(p, 409, "Account already exists")
                    ELSE Write(p, [username |-> "alice", email |-> p.email,
                                   password |-> get_password_hash(p.password)],
                               201, "User successfully created", None, None)
               [] p.op = "login" ->
                    IF user = None THEN Answer(p, 401, "Invalid email")
                    ELSE IF ~user.confirmed THEN Answer(p, 401, "Email not confirmed")
                    ELSE IF ~verify_password(p.password, user.password)
                    THEN Answer(p, 401, "Invalid password")
                    ELSE Write(p, new_refresh_token, 201, NoStr, access_token, new_refresh_token)
               [] p.op = "refresh_token" ->
                    IF user = None THEN Answer(p, 500, "AttributeError")
                    ELSE IF user.refresh_token # p.token
                    THEN Write(p, None, 401, "Invalid refresh token", None, None)
                    ELSE Write(p, new_refresh_token, 200, NoStr, access_token, new_refresh_token)
               [] p.op = "confirmed_email" ->
                    IF user = None THEN Answer(p, 400, "Verification error")
                    ELSE IF user.confirmed
                    THEN Answer(p, 200, "Your email is already confirmed")
                    ELSE Write(p, None, 200, "Email confirmed", None, None)
               [] p.op = "new_password" ->
                    IF user = None THEN Answer(p, 400, "Invalid email")
                    ELSE Write(p, get_password_hash(p.password), 201, "Password updated",
                               None, None)
    IN  /\ p.pc = "decide"
        /\ procs' = [procs EXCEPT ![i] = q]
        /\ UNCHANGED <<store, cache, now, ticks, issued, resp, cred, confirmOk, started, contacts>>

\* The repository function up to db.commit(): the row is read from the
\* database again, one column is set and committed (create_user: the row is
\* inserted, or the commit raises IntegrityError).
Commit(i) ==
    LET p == procs[i]
        made == create_user(store, cache, p.value)
        s2 == CASE p.op = "signup" -> made.store
                [] p.op \in {"login", "refresh_token"} ->
                       update_token(store, cache, p.user, p.value).store
                [] p.op = "confirmed_email" -> confirmed_email(store, cache, p.email).store
                [] p.op = "new_password" ->
                       update_password(store, cache, p.user, p.value).store
    IN  /\ p.pc = "commit"
        /\ IF p.op = "signup" /\ ~made.ok
           THEN /\ procs' = [procs EXCEPT ![i] = Answer(p, 500, "IntegrityError")]
                /\ UNCHANGED store
           ELSE /\ store' = s2
                /\ procs' = [procs EXCEPT ![i] = [p EXCEPT !.pc = "inv_get"]]
        /\ UNCHANGED <<cache, now, ticks, issued, resp, cred, confirmOk, started, contacts>>

\* user_dump = redis_db.get(email) after the commit (users.py lines 62, 84, 103, 124).
InvGet(i) ==
    LET p == procs[i]
    IN  /\ p.pc = "inv_get"
        /\ procs' = [procs EXCEPT ![i] = [p EXCEPT !.pc = "inv_del", !.dump = cache[p.email]]]
        /\ UNCHANGED <<store, cache, now, ticks, issued, resp, cred, confirmOk, started, contacts>>

\* if user_dump: redis_db.delete(email); then the handler returns.
InvDel(i) ==
    LET p == procs[i]
    IN  /\ p.pc = "inv_del"
        /\ cache' = IF p.dump # None THEN [cache EXCEPT ![p.email] = None] ELSE cache
        /\ procs' = [procs EXCEPT ![i] = [p EXCEPT !.pc = "done"]]
        /\ UNCHANGED <<store, now, ticks, issued, resp, cred, confirmOk, started, contacts>>

\* The response is delivered: the client holds the tokens it carries, and
\* the mail scheduled by a signup is sent.
Finish(i) ==
    LET p == procs[i]
    IN  /\ p.pc = "done"
        /\ procs' = [procs EXCEPT ![i] = Idle]
        /\ issued' = issued \cup ({p.access, p.refresh} \ {None})
                            \cup (IF p.op = "signup" /\ p.status = 201
                                  THEN {SendEmailToken(p.email, now)} ELSE {})
        /\ cred' = IF p.op \in {"signup", "new_password"} /\ p.status = 201
                   THEN [cred EXCEPT ![p.email] = p.password] ELSE cred
        /\ confirmOk' = IF p.op = "confirmed_email" /\ p.status = 200
                        THEN confirmOk \cup {p.email} ELSE confirmOk
        /\ UNCHANGED <<store, cache, now, ticks, resp, started, contacts>>

NextConc ==
    \/ \E i \in Slots, p \in Passwords : StartSignup(i, p)
    \/ \E i \in Slots, p \in Passwords : StartLogin(i, p)
    \/ \E i \in Slots, p \in Passwords : StartNewPassword(i, p)
    \/ \E i \in Slots, tok \in issued : StartRefresh(i, tok)
    \/ \E i \in Slots, tok \in issued : StartConfirm(i, tok)
    \/ \E i \in Slots : CacheGet(i)
    \/ \E i \in Slots : DbQuery(i)
    \/ \E i \in Slots : CacheSet(i)
    \/ \E i \in Slots : Decide(i)
    \/ \E i \in Slots : Commit(i)
    \/ \E i \in Slots : InvGet(i)
    \/ \E i \in Slots : InvDel(i)
    \/ \E i \in Slots : Finish(i)
    \/ Tick(1, MaxTicks)

SpecConc == Init /\ [][NextConc]_vars

---------------------------------------------------------------------------
\* Properties.

\* The step is the handling of one request of kind op.
Handled(op) == resp = NoResp /\ resp'.op = op

\* A token the server signed that has not expired.
ValidNow(token) == token.sig /\ ~(now > token.payload.exp)

Expired(token) == token.sig /\ now > token.payload.exp

\* The scope claim of a token; NoStr when it carries none.
ScopeOf(token) == IF "scope" \in DOMAIN token.payload THEN token.payload.scope ELSE NoStr

\* C1: a login with the password the account signed up with (and has not
\* changed) fails with 401 and signs no token as long as confirmed_email has
\* not answered 200 for that email, and returns an access and a refresh token
\* for that email once it has.
C1_LoginGatedByConfirmation ==
    [][(Handled("login") /\ cred[resp'.email] = resp'.password) =>
        IF resp'.email \in confirmOk
        THEN /\ resp'.status = 201
             /\ resp'.access = create_access_token([sub |-> resp'.email], None, now)
             /\ resp'.refresh = create_refresh_token([sub |-> resp'.email], None, now)
             /\ store'[resp'.email].refresh_token = resp'.refresh
        ELSE /\ resp'.status = 401
             /\ resp'.access = None /\ resp'.refresh = None
             /\ issued' = issued
             /\ store' = store]_vars

\* C1 witness: a login with the account's password is answered with tokens
\* after confirmed_email answered 200 for the email.
C1_Witness ==
    /\ resp.op = "login" /\ resp.status = 201
    /\ resp.email \in confirmOk
    /\ resp.password = cred[resp.email]
    /\ resp.refresh \in issued

\* C2 (as claimed): in the state a successful refresh of token T leaves,
\* presenting T again is answered 401 and clears the stored refresh token;
\* and in the state a mismatching refresh leaves, every refresh token of that
\* user is answered 401.
C2_RotatedTokenRejected ==
    /\ (resp.op = "refresh_token" /\ resp.status = 200) =>
          LET again == refresh_token(store, cache, resp.token, now)
          IN  /\ again.status = 401
              /\ again.store[resp.email].refresh_token = None
    /\ (resp.op = "refresh_token" /\ resp.detail = "Invalid refresh token") =>
          \A tok \in issued :
              (ScopeOf(tok) = "refresh_token" /\ tok.payload.sub = resp.email) =>
                  refresh_token(store, cache, tok, now).status = 401

\* C3: a refresh with a validly signed, unexpired, refresh-scoped token of an
\* existing user that is not the stored one is answered 401, signs no token
\* and sets that user's stored refresh token to NULL, changing nothing else
\* in the users table.
C3_MismatchClearsToken ==
    [][(/\ Handled("refresh_token")
        /\ ValidNow(resp'.token) /\ ScopeOf(resp'.token) = "refresh_token"
        /\ store[resp'.token.payload.sub] # None
        /\ store[resp'.token.payload.sub].refresh_token # resp'.token) =>
        /\ resp'.status = 401
        /\ resp'.access = None /\ resp'.refresh = None
        /\ issued' = issued
        /\ store' = [store EXCEPT ![resp'.token.payload.sub].refresh_token = None]]_vars

\* C3 witness: a mismatching refresh was answered while another user holds a
\* stored refresh token.
C3_Witness ==
    /\ resp.op = "refresh_token" /\ resp.detail = "Invalid refresh token"
    /\ ValidNow(resp.token)
    /\ store[resp.email].refresh_token = None
    /\ \E e \in Emails \ {resp.email} : store[e] # None /\ store[e].refresh_token # None

\* C4: with requests handled one at a time, a request that changes the row of
\* an email leaves no cache entry for it, and in every state a lookup of any
\* email returns the row the store holds.
C4_CacheCoherent ==
    [][/\ \A e \in Emails : store'[e] # store[e] => cache'[e] = None
       /\ \A e \in Emails : get_user_by_email(store', cache', e).user = store'[e]]_vars

\* C4 witness: an avatar update changed the row and the cache holds no entry
\* for the email.
C4_Witness ==
    /\ resp.op = "avatar" /\ resp.status = 200
    /\ store[resp.email].avatar \in Urls
    /\ cache[resp.email] = None

\* C5 (as claimed): once no request is in flight, a cache entry is the pickle
\* of the row the store holds for that email.
C5_CacheCoherentAtRest ==
    (\A i \in Slots : procs[i] = Idle) =>
        \A e \in Emails : cache[e] # None => Loads(cache[e]) = store[e]

\* C6 (as claimed): get_current_user hands out a user exactly for a validly
\* signed, unexpired, access-scoped token of an existing user, and answers
\* every other token with 401.
C6_AuthenticateOnly401 ==
    resp.op = "authenticate" =>
        IF /\ ValidNow(resp.token) /\ ScopeOf(resp.token) = "access_token"
           /\ store[resp.token.payload.sub] # None
        THEN resp.status = 200 /\ resp.email = resp.token.payload.sub
        ELSE resp.status = 401

\* C7 (as claimed): a refresh with a validly signed, unexpired token whose
\* scope is not refresh_token is answered 401, signs no token and leaves the
\* users table as it is.
C7_RefreshRejectsOtherScopes ==
    [][(/\ Handled("refresh_token")
        /\ ValidNow(resp'.token) /\ ScopeOf(resp'.token) # "refresh_token") =>
        /\ resp'.status = 401
        /\ resp'.access = None /\ resp'.refresh = None
        /\ issued' = issued
        /\ store' = store]_vars

\* The handlers that decode a token.
TokenOps == {"authenticate", "refresh_token", "confirmed_email", "confirm_password_reset"}

C9_Signup ==
    [][Handled("signup") =>
        IF store[resp'.email] # None
        THEN /\ resp'.status = 409
             /\ store' = store
             /\ resp'.mail = NoStr
             /\ issued' = issued
        ELSE /\ resp'.status = 201
             /\ \E u \in Usernames :
                   store' = [store EXCEPT ![resp'.email] =
                               [username |-> u, email |-> resp'.email,
                                password |-> get_password_hash(resp'.password),
                                confirmed |-> FALSE, avatar |-> "", refresh_token |-> None]]
             /\ verify_password(resp'.password, store'[resp'.email].password)
             /\ resp'.mail = "confirm"
             /\ issued' = issued \cup {SendEmailToken(resp'.email, now)}]_vars

\* C9 witness: a signup for the email of a confirmed, logged-in account was
\* answered 409.
C9_Witness ==
    /\ resp.op = "signup" /\ resp.status = 409
    /\ store[resp.email].confirmed
    /\ store[resp.email].refresh_token # None

\* C10: login reports the first failure that applies, in the order no such
\* user, not confirmed, wrong password, each as 401 with its own message, and
\* succeeds when none applies.
C10_LoginFailureOrder ==
    resp.op = "login" =>
        LET user == store[resp.email]
        IN  IF user = None
            THEN resp.status = 401 /\ resp.detail = "Invalid email"
            ELSE IF ~user.confirmed
            THEN resp.status = 401 /\ resp.detail = "Email not confirmed"
            ELSE IF ~verify_password(resp.password, user.password)
            THEN resp.status = 401 /\ resp.detail = "Invalid password"
            ELSE resp.status = 201

\* C10 witness: a wrong password for an unconfirmed account was reported as
\* "Email not confirmed".
C10_Witness ==
    /\ resp.op = "login" /\ resp.detail = "Email not confirmed"
    /\ store[resp.email] # None
    /\ ~verify_password(resp.password, store[resp.email].password)

\* C11 (as claimed): a refresh-token value is exchanged for a new pair at most
\* once: no two requests that presented the same value are both answered 200.
C11_ExchangedAtMostOnce ==
    ~ \E i, j \in Slots :
        /\ i # j
        /\ procs[i].pc = "done" /\ procs[j].pc = "done"
        /\ procs[i].op = "refresh_token" /\ procs[j].op = "refresh_token"
        /\ procs[i].status = 200 /\ procs[j].status = 200
        /\ procs[i].token = procs[j].token

\* C12 (as claimed): when a login succeeds, every refresh token an earlier
\* login or refresh returned for that user is answered 401 by refresh_token,
\* and the one the login returned is exchanged.
C12_EarlierTokensRejected ==
    [][(Handled("login") /\ resp'.status = 201) =>
        /\ refresh_token(store', cache', resp'.refresh, now).status = 200
        /\ \A tok \in issued :
              (ScopeOf(tok) = "refresh_token" /\ tok.payload.sub = resp'.email) =>
                  refresh_token(store', cache', tok, now).status = 401]_vars

\* C13: a row is created with confirmed false, and a row whose confirmed flag
\* is true keeps it true in every step, whatever the handler.
C13_ConfirmedMonotone ==
    [][\A e \in Emails :
          /\ (store[e] = None /\ store'[e] # None) => ~store'[e].confirmed
          /\ (store[e] # None /\ store[e].confirmed) =>
                (store'[e] # None /\ store'[e].confirmed)]_vars

\* C13 witness: a confirmed account whose avatar was set has just had its
\* password replaced and is still confirmed.
C13_Witness ==
    /\ resp.op = "new_password" /\ resp.status = 201
    /\ store[resp.email].confirmed
    /\ store[resp.email].avatar \in Urls
    /\ store[resp.email].refresh_token # None

\* C14: confirmed_email with a validly signed, unexpired token of an existing
\* user answers 200; it sets confirmed on the first call and nothing else, and
\* on a confirmed user it answers "already confirmed" and leaves the users
\* table as it is, so that handling the same token again from the state it
\* leaves changes nothing.  On a users table without the subject's row (cache
\* empty or holding the 'no user' entry) it answers 400 and leaves the table
\* as it is.
C14_ConfirmIdempotent ==
    [][(Handled("confirmed_email") /\ ValidNow(resp'.token)) =>
        LET e == resp'.token.payload.sub
            again == confirmed_email_route(store', cache', resp'.token, now)
            s0 == [store EXCEPT ![e] = None]
            miss == confirmed_email_route(s0, [cache EXCEPT ![e] = None], resp'.token, now)
            neg == confirmed_email_route(s0, [cache EXCEPT ![e] = Dumps(None)], resp'.token, now)
        IN  /\ store[e] # None =>
                /\ resp'.status = 200
                /\ IF store[e].confirmed
                   THEN resp'.detail = "Your email is already confirmed" /\ store' = store
                   ELSE store' = [store EXCEPT ![e].confirmed = TRUE]
                /\ again.status = 200
                /\ again.detail = "Your email is already confirmed"
                /\ again.store = store'
            /\ miss.status = 400 /\ miss.store = s0
            /\ neg.status = 400 /\ neg.store = s0]_vars

\* C14 witness: the token of the confirmation mail was handled a second time
\* and answered "already confirmed".
C14_Witness ==
    /\ resp.op = "confirmed_email" /\ resp.status = 200
    /\ resp.detail = "Your email is already confirmed"
    /\ ScopeOf(resp.token) = NoStr
    /\ resp.email \in confirmOk

\* C15: confirmed_email looks at no scope: every validly signed, unexpired
\* token whose subject has a row is answered 200 for that subject, and the
\* subject is confirmed afterwards.
C15_ConfirmIgnoresScope ==
    [][(/\ Handled("confirmed_email") /\ ValidNow(resp'.token)
        /\ store[resp'.token.payload.sub] # None) =>
        /\ resp'.status = 200
        /\ resp'.email = resp'.token.payload.sub
        /\ store'[resp'.email].confirmed]_vars

\* C15 witness: confirmed_email answered 200 to an access token or a refresh
\* token of an existing user.
C15_Witness ==
    /\ resp.op = "confirmed_email" /\ resp.status = 200
    /\ ScopeOf(resp.token) \in {"access_token", "refresh_token"}
    /\ store[resp.email].confirmed

\* C16 (as claimed): every token the server has signed carries exactly the
\* claims sub, iat, exp and scope, with one of the three scopes.
C16_FourClaims ==
    \A tok \in issued :
        /\ DOMAIN tok.payload = {"sub", "iat", "exp", "scope"}
        /\ tok.payload.scope \in {"access_token", "refresh_token", "email"}

\* C17: new_password for an email without a row answers 400 and leaves the
\* users table as it is; for an email with a row it answers 201, and if the row
\* is confirmed the next login with the new password is answered 201 and the
\* next login with any other password 401 "Invalid password".
C17_NewPassword ==
    [][Handled("new_password") =>
        LET e == resp'.email
        IN  IF store[e] = None
            THEN resp'.status = 400 /\ store' = store
            ELSE /\ resp'.status = 201
                 /\ store' = [store EXCEPT ![e].password = get_password_hash(resp'.password)]
                 /\ store[e].confirmed =>
                       /\ login(store', cache', e, resp'.password, now).status = 201
                       /\ \A p \in Passwords \ {resp'.password} :
                             LET old == login(store', cache', e, p, now)
                             IN  old.status = 401 /\ old.detail = "Invalid password"]_vars

\* C17 witness: the password of a confirmed, logged-in account was replaced
\* by pw2, and a login with pw1 is answered "Invalid password".
C17_Witness ==
    /\ resp.op = "new_password" /\ resp.status = 201 /\ resp.password = "pw2"
    /\ store[resp.email].confirmed
    /\ store[resp.email].refresh_token # None
    /\ login(store, cache, resp.email, "pw1", now).detail = "Invalid password"

\* C18: what password_reset answers for an email does not depend on the row
\* of that email: in every state, and for every email, the answer computed on
\* the users table is the answer computed on the table with that row absent,
\* or replaced by any other row (the cache empty or holding that row), namely
\* 201 "Check your email for instruction." without tokens; a mail is scheduled
\* exactly when there is a row; and every answer given is that one.
C18_ResetAnswerIndependent ==
    /\ \A e \in Emails :
          LET here == password_reset(store, cache, e, now)
              rows == {None} \cup
                      {[NewUserRow([username |-> u, email |-> e,
                                    password |-> get_password_hash(p)])
                            EXCEPT !.confirmed = k, !.refresh_token = r] :
                          u \in Usernames, p \in Passwords, k \in BOOLEAN,
                          r \in {None} \cup {tok \in issued : ScopeOf(tok) = "refresh_token"}}
          IN  /\ here.status = 201
              /\ here.detail = "Check your email for instruction."
              /\ (here.mail = "reset") <=> (store[e] # None)
              /\ \A row \in rows : \A entry \in {None, Dumps(row)} :
                    LET there == password_reset([store EXCEPT ![e] = row],
                                                [cache EXCEPT ![e] = entry], e, now)
                    IN  /\ there.status = here.status
                        /\ there.detail = here.detail
                        /\ there.access = here.access /\ there.refresh = here.refresh
                        /\ (there.mail = "reset") <=> (row # None)
                        /\ there.store = [store EXCEPT ![e] = row]
    /\ resp.op = "password_reset" =>
          /\ resp.status = 201
          /\ resp.detail = "Check your email for instruction."
          /\ resp.access = None /\ resp.refresh = None

\* C18 witness: password_reset was answered for an email without an account
\* while another email has one, and no mail was scheduled.
C18_Witness ==
    /\ resp.op = "password_reset" /\ resp.status = 201
    /\ store[resp.email] = None
    /\ resp.mail = NoStr
    /\ \E e \in Emails : store[e] # None

\* C19: in every state, every access token the server has signed and that
\* has not expired is accepted by get_current_user, for its subject.
C19_AccessTokenNotRevoked ==
    \A tok \in issued :
        (ScopeOf(tok) = "access_token" /\ ValidNow(tok)) =>
            LET cur == get_current_user(store, cache, tok, now)
            IN  cur.ok /\ cur.user = store[tok.payload.sub]

\* C19 witness: reuse detection has just cleared the stored refresh token of
\* a user, and an unexpired access token of that user exists.
C19_Witness ==
    /\ resp.op = "refresh_token" /\ resp.detail = "Invalid refresh token"
    /\ store[resp.email].refresh_token = None
    /\ \E tok \in issued :
          /\ ScopeOf(tok) = "access_token" /\ ValidNow(tok)
          /\ tok.payload.sub = resp.email

(***************************************************************************)
(* SpecIssue : the three token constructors of Auth called on their own,   *)
(* with and without a lifetime override, at different times.               *)
(***************************************************************************)

\* expires_delta_sec: Optional[float] = None; a number of seconds is [sec |-> n].
Deltas == {None} \cup {[sec |-> n] : n \in {0, 1, 60}}

Created(op, delta, token) == [op |-> op, delta |-> delta, token |-> token]

CreateAccessToken(email, delta) ==
    /\ resp = NoResp
    /\ resp' = Created("create_access_token", delta,
                       create_access_token([sub |-> email], delta, now))
    /\ UNCHANGED <<store, cache, now, ticks, issued, cred, confirmOk, procs, started, contacts>>

CreateRefreshToken(email, delta) ==
    /\ resp = NoResp
    /\ resp' = Created("create_refresh_token", delta,
                       create_refresh_token([sub |-> email], delta, now))
    /\ UNCHANGED <<store, cache, now, ticks, issued, cred, confirmOk, procs, started, contacts>>

\* create_email_token(data) has no lifetime parameter.
CreateEmailToken(email) ==
    /\ resp = NoResp
    /\ resp' = Created("create_email_token", None, create_email_token([sub |-> email], now))
    /\ UNCHANGED <<store, cache, now, ticks, issued, cred, confirmOk, procs, started, contacts>>

NextIssue ==
    \/ \E e \in Emails, d \in Deltas : CreateAccessToken(e, d)
    \/ \E e \in Emails, d \in Deltas : CreateRefreshToken(e, d)
    \/ \E e \in Emails : CreateEmailToken(e)
    \/ \E d \in Leaps : Tick(d, MaxLeaps)
    \/ Return

SpecIssue == Init /\ [][NextIssue]_vars

\* C20 (as claimed): a token made without an override lives 15 minutes
\* (access) or 7 days (refresh, email); a token made with an override of d
\* seconds, d >= 0, expires d seconds after it was issued.
C20_Lifetimes ==
    resp.op \in {"create_access_token", "create_refresh_token", "create_email_token"} =>
        LET life == resp.token.payload.exp - resp.token.payload.iat
        IN  IF resp.delta = None
            THEN life = CASE resp.op = "create_access_token" -> 15 * 60
                          [] resp.op = "create_refresh_token" -> 7 * 24 * 60 * 60
                          [] resp.op = "create_email_token" -> 7 * 24 * 60 * 60
            ELSE life = resp.delta.sec

(***************************************************************************)
(* SpecMail : background_tasks.add_task(send_email, ..) queues the mail;   *)
(* the task runs once the handler has returned its response, and the send  *)
(* succeeds or fails.  Slot 1 of procs holds the queued task.              *)
(***************************************************************************)

MailTask(kind, email) == [pc |-> "send_email", kind |-> kind, email |-> email]

\* The handler runs to its return statement; the mail it asked for is queued.
HandleQueued(op, out, email, password) ==
    /\ resp = NoResp
    /\ procs[1] = Idle
    /\ store' = out.store
    /\ cache' = out.cache
    /\ resp' = Response(op, out.status, out.detail, email, password, None,
                        out.access, out.refresh, out.mail)
    /\ cred' = IF op = "signup" /\ out.status = 201
               THEN [cred EXCEPT ![email] = password] ELSE cred
    /\ procs' = IF out.mail # NoStr
                THEN [procs EXCEPT ![1] = MailTask(out.mail, out.email)] ELSE procs
    /\ UNCHANGED <<now, ticks, issued, confirmOk, started, contacts>>

\* signup whose handler sends the mail itself and fails when the send fails.
MailSignup_sync(username, email, password) ==
    \E sent \in BOOLEAN :
        IF sent
        THEN Handle("signup", signup(store, cache, username, email, password, now),
                    email, password, None)
        ELSE /\ resp = NoResp
             /\ resp' = Response("signup", 500, "send failed", email, password, None,
                                 None, None, NoStr)
             /\ UNCHANGED <<store, cache, now, ticks, issued, cred, confirmOk, procs, started, contacts>>

MailSignup(username, email, password) ==
    HandleQueued("signup", signup(store, cache, username, email, password, now), email, password)

MailRequestEmail(email) ==
    HandleQueued("request_email", request_email(store, cache, email, now), email, NoStr)

MailPasswordReset(email) ==
    HandleQueued("password_reset", password_reset(store, cache, email, now), email, NoStr)

\* The task ran and the mail, carrying an email token made then, went out.
SendDelivered ==
    /\ procs[1].pc = "send_email"
    /\ issued' = issued \cup {SendEmailToken(procs[1].email, now)}
    /\ procs' = [procs EXCEPT ![1] = Idle]
    /\ UNCHANGED <<store, cache, now, ticks, resp, cred, confirmOk, started, contacts>>

\* The task ran and the send raised: no mail, nothing else happens.
SendFailed ==
    /\ procs[1].pc = "send_email"
    /\ procs' = [procs EXCEPT ![1] = Idle]
    /\ UNCHANGED <<store, cache, now, ticks, issued, resp, cred, confirmOk, started, contacts>>

NextMail ==
    \/ \E u \in Usernames, e \in Emails, p \in Passwords : MailSignup(u, e, p)
    \/ \E e \in Emails : MailRequestEmail(e)
    \/ \E e \in Emails : MailPasswordReset(e)
    \/ \E tok \in Presentable : ConfirmedEmail(tok)
    \/ SendDelivered
    \/ SendFailed
    \/ Tick(1, MaxTicks)
    \/ Return

SpecMail == Init /\ [][NextMail]_vars

\* C21: signup of a new email answers 201 and persists the row, and
\* request_email and password_reset answer 201 and leave the users table as it
\* is, before the mail is sent; and the step in which the send succeeds or
\* fails changes neither the response, nor the users table, nor the cache.
C21_FireAndForget ==
    [][/\ (Handled("signup") /\ store[resp'.email] = None) =>
              /\ resp'.status = 201
              /\ store'[resp'.email] # None
              /\ procs'[1] = MailTask("confirm", resp'.email)
       /\ Handled("request_email") => (resp'.status = 201 /\ store' = store)
       /\ Handled("password_reset") => (resp'.status = 201 /\ store' = store)
       /\ (procs[1].pc = "send_email" /\ procs'[1] = Idle) =>
              (resp' = resp /\ store' = store /\ cache' = cache)]_vars

\* C21 witness: the confirmation mail of a signup answered 201 was not sent
\* (no token for the email went out), and the row is in the users table.
C21_Witness ==
    /\ resp.op = "signup" /\ resp.status = 201
    /\ procs[1] = Idle
    /\ \A tok \in issued : tok.payload.sub # resp.email
    /\ store[resp.email] # None

(***************************************************************************)
(* SpecContacts : src/src/repository/contacts.py.  A str column holds      *)
(* Str(<<characters>>) or None (NULL); a date is a year and a day of the   *)
(* year, every year having YearLen days.                                   *)
(***************************************************************************)

Str(chars) == [chars |-> chars]

\* Column.startswith(prefix); a NULL column matches nothing.
StartsWith(value, prefix) ==
    /\ value # None
    /\ Len(prefix) <= Len(value.chars)
    /\ SubSeq(value.chars, 1, Len(prefix)) = prefix

YearLen == 365
SecondsPerDay == 86400

Date(year, doy) == [year |-> year, doy |-> doy]
DayNumber(d) == d.year * YearLen + d.doy

\* date.today()
Today(t) == Date((t \div SecondsPerDay) \div YearLen, (t \div SecondsPerDay) % YearLen)

\* The current User handed to the repository by the route.
Users == {[id |-> 1], [id |-> 2]}

\* ContactModel bodies.
Bodies ==
    { [first_name |-> Str(<<"a", "n">>), last_name |-> Str(<<"b", "o">>),
       email |-> Str(<<"a", "@">>), phone |-> None, date_of_birth |-> Date(-1, 3)],
      [first_name |-> Str(<<"a", "l">>), last_name |-> Str(<<"b", "o">>),
       email |-> None, phone |-> Str(<<"1">>), date_of_birth |-> Date(-2, 10)],
      [first_name |-> Str(<<"b", "o">>), last_name |-> Str(<<"c", "y">>),
       email |-> Str(<<"b", "@">>), phone |-> None, date_of_birth |-> Date(-3, 360)] }

\* ContactUpdate bodies.
DateBodies == {[date_of_birth |-> Date(-2, 10)]}

\* The query without the Contact.user_id == user.id condition.
get_contact_any_owner(ct, contact_id, user) ==
    IF contact_id \in DOMAIN ct /\ ct[contact_id] # None
    THEN ct[contact_id] ELSE None

\* db.query(Contact).filter(and_(Contact.id == contact_id,
\*                               Contact.user_id == user.id)).first()
get_contact(ct, contact_id, user) ==
    IF /\ contact_id \in DOMAIN ct
       /\ ct[contact_id] # None
       /\ ct[contact_id].user_id = user.id
    THEN ct[contact_id] ELSE None

\* new_id is the primary key the database gives the row.
create_contact(ct, body, user, new_id) ==
    LET contact == [id |-> new_id, first_name |-> body.first_name,
                    last_name |-> body.last_name, email |-> body.email,
                    phone |-> body.phone, date_of_birth |-> body.date_of_birth,
                    user_id |-> user.id]
    IN  [contact |-> contact, contacts |-> [ct EXCEPT ![new_id] = contact]]

\* remove_contact without db.delete.
remove_contact_keeps(ct, contact_id, user) ==
    [contact |-> get_contact(ct, contact_id, user), contacts |-> ct]

remove_contact(ct, contact_id, user) ==
    LET contact == get_contact(ct, contact_id, user)
    IN  [contact |-> contact,
         contacts |-> IF contact # None THEN [ct EXCEPT ![contact_id] = None] ELSE ct]

update_contact(ct, contact_id, body, user) ==
    LET contact == get_contact(ct, contact_id, user)
        updated == [contact EXCEPT !.first_name = body.first_name,
                                   !.last_name = body.last_name,
                                   !.email = body.email,
                                   !.phone = body.phone,
                                   !.date_of_birth = body.date_of_birth]
    IN  IF contact # None
        THEN [contact |-> updated, contacts |-> [ct EXCEPT ![contact_id] = updated]]
        ELSE [contact |-> None, contacts |-> ct]

update_date_of_birth_contact(ct, contact_id, body, user) ==
    LET contact == get_contact(ct, contact_id, user)
        updated == [contact EXCEPT !.date_of_birth = body.date_of_birth]
    IN  IF contact # None
        THEN [contact |-> updated, contacts |-> [ct EXCEPT ![contact_id] = updated]]
        ELSE [contact |-> None, contacts |-> ct]

\* The contacts of a user.
Mine(ct, user) ==
    {ct[i] : i \in {j \in DOMAIN ct : ct[j] # None /\ ct[j].user_id = user.id}}

\* The orders in which the database can return the contacts of a user to a
\* query without ORDER BY.
Orders(ct, user) ==
    LET mine == Mine(ct, user)
    IN  {o \in [1..Cardinality(mine) -> mine] :
            \A i, j \in 1..Cardinality(mine) : i # j => o[i] # o[j]}

\* .offset(skip).limit(limit).all()
Page(order, skip, limit) ==
    {order[k] : k \in {n \in 1..Len(order) : n > skip /\ n <= skip + limit}}

\* The birthday filter: the birthday of the year of today, or of the year of
\* today + birthdays, lies between today and today + birthdays.
BirthdayWithin(date_of_birth, birthdays, today) ==
    LET date_start == DayNumber(today)
        date_finish == date_start + birthdays
        year_start == today.year
        year_finish == date_finish \div YearLen
    IN  \E year \in {year_start, year_finish} :
            /\ year * YearLen + date_of_birth.doy >= date_start
            /\ year * YearLen + date_of_birth.doy <= date_finish

\* get_contacts that looks at last_name before first_name.
get_contacts_last_name_first(ct, skip, limit, first_name, last_name, email, birthdays, user, today, order) ==
    LET mine == Mine(ct, user)
    IN  IF Len(first_name \o last_name \o email) = 0 /\ birthdays = 0
        THEN Page(order, skip, limit)
        ELSE IF Len(last_name) > 0
        THEN {c \in mine : StartsWith(c.last_name, last_name)}
        ELSE IF Len(first_name) > 0
        THEN {c \in mine : StartsWith(c.first_name, first_name)}
        ELSE IF Len(email) > 0
        THEN {c \in mine : StartsWith(c.email, email)}
        ELSE {c \in mine : BirthdayWithin(c.date_of_birth, birthdays, today)}

get_contacts(ct, skip, limit, first_name, last_name, email, birthdays, user, today, order) ==
    LET mine == Mine(ct, user)
    IN  IF Len(first_name \o last_name \o email) = 0 /\ birthdays = 0
        THEN Page(order, skip, limit)
        ELSE IF Len(first_name) > 0
        THEN {c \in mine : StartsWith(c.first_name, first_name)}
        ELSE IF Len(last_name) > 0
        THEN {c \in mine : StartsWith(c.last_name, last_name)}
        ELSE IF Len(email) > 0
        THEN {c \in mine : StartsWith(c.email, email)}
        ELSE {c \in mine : BirthdayWithin(c.date_of_birth, birthdays, today)}

\* Ids a caller asks for: every id of the table and one beyond it.
AskIds == 1..(MaxContacts + 1)

FirstNames == {<<>>, <<"a">>}
LastNames == {<<>>, <<"c">>}
MailPrefixes == {<<>>, <<"a">>}
Skips == {0, 1}
Limits == {1, 2}
Birthdays == {0, 7, 365}

Answered(op, user, args, result) == [op |-> op, user |-> user, args |-> args, result |-> result]

\* A repository call: the table it leaves and what it returns.
Call(op, user, args, result, table) ==
    /\ resp = NoResp
    /\ contacts' = table
    /\ resp' = Answered(op, user, args, result)
    /\ UNCHANGED <<store, cache, now, ticks, issued, cred, confirmOk, procs, started>>

GetContacts(user, skip, limit, first_name, last_name, email, birthdays) ==
    \E order \in Orders(contacts, user) :
        Call("get_contacts", user,
             [skip |-> skip, limit |-> limit, first_name |-> first_name,
              last_name |-> last_name, email |-> email, birthdays |-> birthdays],
             get_contacts(contacts, skip, limit, first_name, last_name, email,
                          birthdays, user, Today(now), order),
             contacts)

GetContact(user, contact_id) ==
    Call("get_contact", user, [contact_id |-> contact_id],
         get_contact(contacts, contact_id, user), contacts)

CreateContact(user, body) ==
    \E new_id \in ContactIds :
        /\ contacts[new_id] = None
        /\ LET made == create_contact(contacts, body, user, new_id)
           IN  Call("create_contact", user, [body |-> body], made.contact, made.contacts)

RemoveContact(user, contact_id) ==
    LET out == remove_contact(contacts, contact_id, user)
    IN  Call("remove_contact", user, [contact_id |-> contact_id], out.contact, out.contacts)

UpdateContact(user, contact_id, body) ==
    LET out == update_contact(contacts, contact_id, body, user)
    IN  Call("update_contact", user, [contact_id |-> contact_id, body |-> body],
             out.contact, out.contacts)

UpdateDateOfBirthContact(user, contact_id, body) ==
    LET out == update_date_of_birth_contact(contacts, contact_id, body, user)
    IN  Call("update_date_of_birth_contact", user, [contact_id |-> contact_id, body |-> body],
             out.contact, out.contacts)

NextContacts ==
    \/ \E u \in Users, sk \in Skips, li \in Limits, fn \in FirstNames, ln \in LastNames,
          em \in MailPrefixes, bd \in Birthdays : GetContacts(u, sk, li, fn, ln, em, bd)
    \/ \E u \in Users, id \in AskIds : GetContact(u, id)
    \/ \E u \in Users, b \in Bodies : CreateContact(u, b)
    \/ \E u \in Users, id \in AskIds : RemoveContact(u, id)
    \/ \E u \in Users, id \in AskIds, b \in Bodies : UpdateContact(u, id, b)
    \/ \E u \in Users, id \in AskIds, b \in DateBodies : UpdateDateOfBirthContact(u, id, b)
    \/ Tick(REFRESH_EXPIRE, MaxTicks)
    \/ Return

SpecContacts == Init /\ [][NextContacts]_vars

\* The routes of one contact id: `if contact is None: raise contact_not_found`.
contact_or_404(contact) ==
    IF contact = None THEN [status |-> 404, detail |-> "Contact not found"]
    ELSE [status |-> 200, detail |-> NoStr]

\* The repository functions that take a contact id.
ByIdOps == {"get_contact", "remove_contact", "update_contact", "update_date_of_birth_contact"}

\* The caller's contact with the id asked for exists before the call.
Found == /\ resp'.args.contact_id \in ContactIds
         /\ contacts[resp'.args.contact_id] # None
         /\ contacts[resp'.args.contact_id].user_id = resp'.user.id

\* C22: a repository call for user A leaves every contact of another user as
\* it is and returns only contacts of A; for an id whose contact belongs to
\* another user it returns nothing and changes nothing, as for a missing id;
\* create_contact for A adds a contact owned by A.
C22_ContactsIsolated ==
    [][(resp = NoResp /\ resp'.op \in ByIdOps \cup {"get_contacts", "create_contact"}) =>
        LET a == resp'.user
            r == resp'.result
        IN  /\ \A id \in ContactIds :
                  (contacts[id] # None /\ contacts[id].user_id # a.id) =>
                      contacts'[id] = contacts[id]
            /\ resp'.op = "get_contacts" => \A c \in r : c.user_id = a.id
            /\ resp'.op \in ByIdOps =>
                  /\ r # None => (r.user_id = a.id /\ r.id = resp'.args.contact_id)
                  /\ ~Found => (r = None /\ contacts' = contacts)
            /\ resp'.op = "create_contact" =>
                  /\ r.user_id = a.id
                  /\ contacts[r.id] = None
                  /\ contacts' = [contacts EXCEPT ![r.id] = r]]_vars

\* C22 witness: a user asked to remove a contact of another user, got
\* nothing, and the contact is still there.
C22_Witness ==
    /\ resp.op = "remove_contact" /\ resp.result = None
    /\ resp.args.contact_id \in ContactIds
    /\ contacts[resp.args.contact_id] # None
    /\ contacts[resp.args.contact_id].user_id # resp.user.id

\* C23: for an id under which the caller has no contact, get_contact,
\* remove_contact, update_contact and update_date_of_birth_contact return
\* nothing (404 "Contact not found" in the routes) and leave the contacts
\* table as it is; for an id under which the caller has one, remove_contact
\* returns that contact, removes exactly it, and get_contact then finds nothing.
C23_MissingContact ==
    [][(resp = NoResp /\ resp'.op \in ByIdOps) =>
        LET id == resp'.args.contact_id
            r == resp'.result
        IN  /\ ~Found =>
                  /\ r = None
                  /\ contact_or_404(r) = [status |-> 404, detail |-> "Contact not found"]
                  /\ contacts' = contacts
            /\ (Found /\ resp'.op = "remove_contact") =>
                  /\ r = contacts[id]
                  /\ contacts' = [contacts EXCEPT ![id] = None]
                  /\ get_contact(contacts', id, resp'.user) = None]_vars

\* C23 witness: a contact was removed and another contact remains.
C23_Witness ==
    /\ resp.op = "remove_contact" /\ resp.result # None
    /\ contacts[resp.result.id] = None
    /\ \E id \in ContactIds : contacts[id] # None

\* C26: get_contacts returns contacts of the caller only.  With a non-empty
\* first_name it returns every contact of the caller whose first name starts
\* with it; otherwise, with a non-empty last_name, every one whose last name
\* starts with it; otherwise, with a non-empty email, every one whose email
\* starts with it; otherwise, with birthdays # 0, every one whose birthday
\* falls within that many days; in each of these cases whatever skip and
\* limit are.  With no criterion it returns min(limit, n - skip) (at least 0)
\* of the caller's n contacts.
C26_SearchPrecedence ==
    resp.op = "get_contacts" =>
        LET a == resp.args
            mine == Mine(contacts, resp.user)
            r == resp.result
            rest == IF Cardinality(mine) > a.skip THEN Cardinality(mine) - a.skip ELSE 0
        IN  /\ r \subseteq mine
            /\ IF Len(a.first_name) > 0
               THEN r = {c \in mine : StartsWith(c.first_name, a.first_name)}
               ELSE IF Len(a.last_name) > 0
               THEN r = {c \in mine : StartsWith(c.last_name, a.last_name)}
               ELSE IF Len(a.email) > 0
               THEN r = {c \in mine : StartsWith(c.email, a.email)}
               ELSE IF a.birthdays # 0
               THEN r = {c \in mine : BirthdayWithin(c.date_of_birth, a.birthdays, Today(now))}
               ELSE Cardinality(r) = IF a.limit < rest THEN a.limit ELSE rest

\* C26 witness: a search with first_name and last_name given, skip 1 and
\* limit 1 returned two contacts, one of which does not match the last_name.
C26_Witness ==
    /\ resp.op = "get_contacts"
    /\ Len(resp.args.first_name) > 0 /\ Len(resp.args.last_name) > 0
    /\ resp.args.skip = 1 /\ resp.args.limit = 1
    /\ Cardinality(resp.result) = 2
    /\ \E c \in resp.result : ~StartsWith(c.last_name, resp.args.last_name)

\* The columns of a users row.
UserFields == {"username", "email", "password", "confirmed", "avatar", "refresh_token"}

\* s2 is s with column f of the row of email e set to v, and nothing else.
OnlyFieldSet(s, s2, e, f, v) ==
    /\ \A e2 \in Emails \ {e} : s2[e2] = s[e2]
    /\ s2[e] # None
    /\ s2[e][f] = v
    /\ \A g \in UserFields \ {f} : s2[e][g] = s[e][g]

LookupOps == {"request_email", "password_reset"}

\* C25: when a handler that only looks the user up is answered and redis held
\* no entry for the email, the users table is unchanged, redis then holds the
\* pickled row of the table (or pickled None when there is no row) and nothing
\* else changed in it; the lookup returned what the table holds, and a second
\* lookup returns the same and changes nothing.
C25_ReadThrough ==
    [][\A e \in Emails :
          ((\E op \in LookupOps : Handled(op)) /\ resp'.email = e /\ cache[e] = None) =>
              LET first  == get_user_by_email(store, cache, e)
                  second == get_user_by_email(store', cache', e)
              IN  /\ store' = store
                  /\ cache' = [cache EXCEPT ![e] = Dumps(store[e])]
                  /\ first.user = store[e]
                  /\ first.cache = cache'
                  /\ second.user = first.user
                  /\ second.cache = cache']_vars

\* C25 witness: a lookup of an email with a row has filled redis with that
\* row, and redis holds the pickled None of a lookup of the other email,
\* which has no row.
C25_Witness ==
    /\ resp.op \in LookupOps
    /\ store[resp.email] # None
    /\ cache[resp.email] = Dumps(store[resp.email])
    /\ \E e \in Emails \ {resp.email} : store[e] = None /\ cache[e] = Dumps(None)

\* C27 (as claimed): with requests interleaved, every signup that is answered
\* is answered 201 or 409 "Account already exists", at most one signup for an
\* email is answered 201, and once the users table holds the row of an email
\* and no signup for that email is still running, redis holds no pickled None
\* for it.
C27_ConcurrentSignup ==
    /\ \A i \in Slots :
          (procs[i].pc = "done" /\ procs[i].op = "signup") => procs[i].status \in {201, 409}
    /\ \A i, j \in Slots :
          (/\ i # j
           /\ procs[i].pc = "done" /\ procs[j].pc = "done"
           /\ procs[i].op = "signup" /\ procs[j].op = "signup"
           /\ procs[i].email = procs[j].email) =>
              ~ (procs[i].status = 201 /\ procs[j].status = 201)
    /\ \A e \in Emails :
          (/\ store[e] # None
           /\ \A i \in Slots :
                 (procs[i].pc \notin {"idle", "done"}) =>
                     ~ (procs[i].op = "signup" /\ procs[i].email = e)) =>
              cache[e] # Dumps(None)

\* C28 (as claimed): a refresh answered 200 returns a refresh token other than
\* the one presented, and a login answered 201 returns a refresh token other
\* than every refresh token issued for that user before.
C28_FreshRefreshToken ==
    [][/\ (Handled("refresh_token") /\ resp'.status = 200) => resp'.refresh # resp'.token
       /\ (Handled("login") /\ resp'.status = 201) =>
             \A tok \in issued :
                 (ScopeOf(tok) = "refresh_token" /\ tok.payload.sub = resp'.email) =>
                     resp'.refresh # tok]_vars

\* C29: every access and refresh token the handlers have returned names a
\* user whose row has confirmed true; a row for which no refresh token was
\* ever returned has refresh_token NULL; and confirmed_email, given any
\* returned access or refresh token, leaves the users table as it is.
C29_TokensOnlyForConfirmed ==
    /\ \A tok \in issued :
          ScopeOf(tok) \in {"access_token", "refresh_token"} =>
              /\ store[tok.payload.sub] # None
              /\ store[tok.payload.sub].confirmed
              /\ confirmed_email_route(store, cache, tok, now).store = store
    /\ \A e \in Emails :
          (/\ store[e] # None
           /\ ~ \E tok \in issued : ScopeOf(tok) = "refresh_token" /\ tok.payload.sub = e) =>
              store[e].refresh_token = None

\* C29 witness: a login has returned an access and a refresh token for one
\* email while the other email has an unconfirmed row.
C29_Witness ==
    /\ resp.op = "login" /\ resp.status = 201
    /\ {resp.access, resp.refresh} \subseteq issued
    /\ \E e \in Emails \ {resp.email} :
          /\ store[e] # None
          /\ ~store[e].confirmed
          /\ store[e].refresh_token = None

\* C30: in every state, for every email with a row, confirmed or not, and
\* every password, new_password given only the email and the password is
\* answered 201 and leaves the hash of that password in the row.
C30_NewPasswordUnguarded ==
    \A e \in Emails :
        store[e] # None =>
            \A p \in Passwords :
                LET out == new_password(store, cache, e, p, now)
                IN  /\ out.status = 201
                    /\ out.store[e].password = get_password_hash(p)
                    /\ verify_password(p, out.store[e].password)

\* C30 witness: new_password has been answered 201 for an email whose row is
\* unconfirmed, no email having been confirmed and a single token having been
\* signed so far, and the row holds the hash of the password given.
C30_Witness ==
    /\ resp.op = "new_password" /\ resp.status = 201
    /\ ~store[resp.email].confirmed
    /\ store[resp.email].password = get_password_hash(resp.password)
    /\ confirmOk = {}
    /\ Cardinality(issued) = 1

\* C31: when new_password is answered 201, the row keeps its stored refresh
\* token and its confirmed flag, and every signed token that refresh_token
\* exchanged (200) before the change it exchanges after it.
C31_PasswordChangeKeepsSession ==
    [][(Handled("new_password") /\ resp'.status = 201) =>
          LET e == resp'.email
          IN  /\ store'[e].refresh_token = store[e].refresh_token
              /\ store'[e].confirmed = store[e].confirmed
              /\ \A tok \in issued :
                    refresh_token(store, cache, tok, now).status = 200 =>
                        refresh_token(store', cache', tok, now).status = 200]_vars

\* C31 witness: new_password has been answered 201 for a user whose stored
\* refresh token refresh_token exchanges.
C31_Witness ==
    /\ resp.op = "new_password" /\ resp.status = 201
    /\ store[resp.email].refresh_token # None
    /\ refresh_token(store, cache, store[resp.email].refresh_token, now).status = 200

\* C32 (as claimed): in every state interleaved requests leave once all of
\* them have returned, for every confirmed row a login with a password that
\* verifies against the stored hash is answered 201, and a refresh_token with
\* the refresh token it returns, called next, is answered 200.
C32_NoLockOut ==
    (\A i \in Slots : procs[i] = Idle) =>
        \A e \in Emails :
            (store[e] # None /\ store[e].confirmed) =>
                \A p \in Passwords :
                    verify_password(p, store[e].password) =>
                        LET out == login(store, cache, e, p, now)
                        IN  /\ out.status = 201
                            /\ refresh_token(out.store, out.cache, out.refresh, now).status = 200

\* The handlers that never write a users row.
ReadOnlyOps == {"authenticate", "request_email", "password_reset", "confirm_password_reset"}

\* The status each writing handler answers when it has done its work.
SuccessStatus(op) ==
    CASE op = "signup" -> 201
      [] op = "login" -> 201
      [] op = "refresh_token" -> 200
      [] op = "confirmed_email" -> 200
      [] op = "new_password" -> 201

\* C33: a step of authenticate, request_email, password_reset or
\* confirm_password_reset, and a step of signup, login, refresh_token,
\* confirmed_email or new_password that is not answered with its success
\* status, leaves the users table unchanged, except a refresh_token answered
\* 401 "Invalid refresh token", which sets the stored refresh token of the
\* token's user to NULL and changes nothing else.
C33_FailuresDoNotWrite ==
    [][/\ (\E op \in ReadOnlyOps : Handled(op)) => store' = store
       /\ \A op \in {"signup", "login", "refresh_token", "confirmed_email", "new_password"} :
             (Handled(op) /\ resp'.status # SuccessStatus(op)) =>
                 IF op = "refresh_token" /\ resp'.detail = "Invalid refresh token"
                 THEN store' = [store EXCEPT ![resp'.email].refresh_token = None]
                 ELSE store' = store]_vars

\* C33 witness: a login has been answered 401 for a wrong password while the
\* row holds a stored refresh token.
C33_Witness ==
    /\ resp.op = "login" /\ resp.status = 401 /\ resp.detail = "Invalid password"
    /\ store[resp.email].refresh_token # None

\* C34: a lookup-only handler answered for an email without a row and
\* without a redis entry leaves pickled None in redis; while redis holds
\* pickled None for an email, get_user_by_email returns no user and leaves
\* redis alone whether or not the users table has a row for it; and when
\* signup is answered 201, redis holds no entry for the email, so the next
\* get_user_by_email returns the created row and a login finds the account.
C34_NegativeEntryUndoneBySignup ==
    [][/\ \A e \in Emails :
             ((\E op \in LookupOps : Handled(op)) /\ resp'.email = e
                 /\ store[e] = None /\ cache[e] = None) =>
                 cache'[e] = Dumps(None)
       /\ \A e \in Emails :
             cache[e] = Dumps(None) =>
                 \A s2 \in {store,
                            [store EXCEPT ![e] = NewUserRow([username |-> "alice", email |-> e,
                                                   password |-> get_password_hash("pw1")])]} :
                     /\ get_user_by_email(s2, cache, e).user = None
                     /\ get_user_by_email(s2, cache, e).cache = cache
       /\ (Handled("signup") /\ resp'.status = 201) =>
             LET e == resp'.email
             IN  /\ cache'[e] = None
                 /\ store'[e] # None
                 /\ get_user_by_email(store', cache', e).user = store'[e]
                 /\ login(store', cache', e, resp'.password, now).detail # "Invalid email"]_vars

\* C34 witness: signup has been answered 201 and redis holds no entry for its
\* email, while redis holds the pickled None of a lookup of the other email.
C34_Witness ==
    /\ resp.op = "signup" /\ resp.status = 201
    /\ store[resp.email] # None
    /\ cache[resp.email] = None
    /\ \E e \in Emails \ {resp.email} : store[e] = None /\ cache[e] = Dumps(None)

====
